---- MODULE Spec2Model ----
(***************************************************************************)
(* RetroPortForward: the port-forwarding session of main.py                *)
(* (Api.start_port_forward), the RouterManager, find_dreampi and           *)
(* get_router_subnet_ip of setup_dreampi.py and the vendor handler         *)
(* registry and handlers of router_handlers.py.                            *)
(*                                                                         *)
(* Python values are encoded as follows.  A string-or-None value is a      *)
(* record [kind, text]: None has kind "none"; a dotted address has kind    *)
(* "str" and its octets as text (the empty string has the empty text); a   *)
(* non-empty string that is no dotted address has kind "word".  Handler    *)
(* classes are named by their class names, "None" for no handler.  Where   *)
(* the code compares text (MAC prefixes, hostnames, lines of an adapter    *)
(* listing, a typed address) a string is the sequence of its characters.   *)
(***************************************************************************)
EXTENDS Integers, Sequences, FiniteSets, TLC

VARIABLES
    unit,         \* which entry point drives this run
    pc,           \* position of the driver
    request,      \* the payload given to Api.start_port_forward
    accepts,      \* environment: the router accepts the request's credentials
    rm,           \* the RouterManager object (router_ip, router_type, handler, and
                  \* the session.auth its caller assigned)
    locatorCalls, \* number of find_router invocations
    loginLog,     \* outcomes of the handler.login calls of the last login, in order
    loginRet,     \* return value of login_to_router ("none" before the call)
    attempts,     \* the handler.login calls of the last login: arguments and outcome
    loginCall,    \* a handler.login call made directly: arguments, answers,
                  \* strategies run, transport context before and after
    setupCalls,   \* arguments of the RouterManager.setup_port_forward calls
    handlerCalls, \* arguments received by handler.setup_port_forward
    routerTable,  \* the router's forwarding table (mock transport)
    tableOnce,    \* the forwarding table after the first application
    requests,     \* number of HTTP requests issued to the router
    ret,          \* outcome of the last unit-level call, with the answers the
                  \* handler received to its requests
    lookups,      \* per concurrent session: its last registry lookup
    result,       \* the record returned by Api.start_port_forward
    logFile,      \* the lines main.py's logging has written to port_forward_launch.log
    discovery,      \* the frame of a find_dreampi() call
    subnet,       \* the frame of a get_router_subnet_ip() call
    invocations,  \* two start_port_forward calls on one Api object: their frames
    managers,     \* the RouterManager objects those calls have constructed
    router_manager \* the attribute Api.router_manager those calls share

vars == <<unit, pc, request, accepts, rm, locatorCalls, loginLog, loginRet, attempts,
          loginCall, setupCalls, handlerCalls, routerTable, tableOnce, requests, ret,
          lookups, result, logFile, discovery, subnet, invocations, managers,
          router_manager>>

\* the state of the entry points a session of one Api call does not touch
elsewhere == <<discovery, subnet, invocations, managers, router_manager>>

----------------------------------------------------------------------------
(* Python values *)

None == [kind |-> "none", text |-> <<>>]

Str(t) == [kind |-> "str", text |-> t]

Word == [kind |-> "word", text |-> <<>>]

\* Python truthiness of a string-or-None value
Truthy(v) == v.kind = "word" \/ (v.kind = "str" /\ v.text # <<>>)

PyNone == "<None>"

\* Python truthiness of a vendor tag
TruthyTag(t) == t \notin {PyNone, ""}

Rule(p, e, i) == [protocol |-> p, external |-> e, internal |-> i]

\* the second argument of RouterManager.setup_port_forward: a string or a list
ArgStr(s) == [kind |-> "str", s |-> s, l |-> <<>>]

ArgList(l) == [kind |-> "list", s |-> "", l |-> l]

----------------------------------------------------------------------------
(* The port-rule catalog *)

get_dreamcast_port_rules ==
    << Rule("UDP", 7980, 7980),
       Rule("UDP", 9789, 9789),
       Rule("UDP", 25565, 25565),
       Rule("UDP", 20675, 20675),
       Rule("UDP", 12079, 12079),
       Rule("UDP", 9879, 9879),
       Rule("UDP", 30099, 30099),
       Rule("TCP", 37001, 37001),
       Rule("UDP", 20675, 20675),
       Rule("UDP", 12079, 12079),
       Rule("UDP", 5656, 5656),
       Rule("TCP", 5011, 5011),
       Rule("TCP", 10500, 10500),
       Rule("TCP", 10501, 10501),
       Rule("TCP", 10502, 10502),
       Rule("TCP", 10503, 10503),
       Rule("UDP", 5502, 5502),
       Rule("UDP", 5503, 5503),
       Rule("UDP", 5656, 5656),
       Rule("TCP", 5011, 5011),
       Rule("TCP", 6666, 6666),
       Rule("TCP", 3512, 3512),
       Rule("UDP", 3512, 3512),
       Rule("UDP", 6001, 6001),
       Rule("TCP", 2300, 2300),
       Rule("UDP", 2300, 2300),
       Rule("TCP", 2400, 2400),
       Rule("UDP", 2400, 2400),
       Rule("UDP", 6500, 6500),
       Rule("TCP", 47624, 47624),
       Rule("UDP", 13139, 13139),
       Rule("UDP", 7648, 7648),
       Rule("UDP", 1285, 1285),
       Rule("UDP", 1028, 1028),
       Rule("UDP", 20675, 20675),
       Rule("UDP", 12079, 12079),
       Rule("TCP", 2300, 2300),
       Rule("UDP", 2300, 2300),
       Rule("TCP", 2400, 2400),
       Rule("UDP", 2400, 2400),
       Rule("UDP", 6500, 6500),
       Rule("TCP", 47624, 47624),
       Rule("UDP", 37171, 37171),
       Rule("UDP", 13713, 13713),
       Rule("TCP", 17219, 17219) >>

SaturnRules ==
    << Rule("TCP", 65432, 65432), Rule("UDP", 20001, 20001), Rule("UDP", 20002, 20002) >>

get_port_rules(console_type) ==
    IF console_type.kind = "str" /\ console_type.s = "dreamcast" THEN get_dreamcast_port_rules
    ELSE IF console_type.kind = "str" /\ console_type.s = "saturn" THEN SaturnRules
    ELSE <<>>

----------------------------------------------------------------------------
(* The handler registry *)

handlers ==
       ("ASUS" :> "ASUSHandler") @@
       ("TP-Link" :> "TPLinkHandler") @@
       ("Netgear" :> "NetgearHandler") @@
       ("Linksys" :> "LinksysHandler") @@
       ("D-Link" :> "DLinkHandler") @@
       ("Cisco" :> "CiscoHandler") @@
       ("Belkin" :> "BelkinHandler") @@
       ("Buffalo" :> "BuffaloHandler") @@
       ("Zyxel" :> "ZyxelHandler") @@
       ("Huawei" :> "HuaweiHandler") @@
       ("Ubiquiti" :> "UbiquitiHandler") @@
       ("MikroTik" :> "MikroTikHandler") @@
       ("NETIS" :> "NETISHandler") @@
       ("Tenda" :> "TendaHandler") @@
       ("EnGenius" :> "EnGeniusHandler") @@
       ("Actiontec" :> "ActiontecHandler") @@
       ("AirTies" :> "AirTiesHandler") @@
       ("Arris" :> "ArrisHandler") @@
       ("Motorola" :> "MotorolaHandler") @@
       ("Sagemcom" :> "SagemcomHandler") @@
       ("Thomson" :> "ThomsonHandler") @@
       ("Technicolor" :> "TechnicolorHandler") @@
       ("Zoom" :> "ZoomHandler") @@
       ("Billion" :> "BillionHandler") @@
       ("SmartRG" :> "SmartRGHandler") @@
       ("Edimax" :> "EdimaxHandler") @@
       ("Comtrend" :> "ComtrendHandler") @@
       ("Pace" :> "PaceHandler") @@
       ("Xiaomi" :> "XiaomiHandler") @@
       ("Fios-G1100" :> "FiosG1100Handler") @@
       ("OpenWrt" :> "OpenWrtHandler")

RegisteredTags == DOMAIN handlers

\* a faulty lookup that ignores the letter case of one tag
get_handlerAnyCase(router_type) ==
    IF router_type = "asus" THEN handlers["ASUS"]
    ELSE IF router_type \in DOMAIN handlers THEN handlers[router_type]
    ELSE "GenericHandler"

get_handler(router_type) ==
    IF router_type \in DOMAIN handlers THEN handlers[router_type] ELSE "GenericHandler"

----------------------------------------------------------------------------
(* The handlers.  The router is a mock transport: each request gets an     *)
(* answer "200" (accepted), "500" (rejected) or "exc" (the request raises  *)
(* a timeout or connection error).                                         *)

\* router_handlers.py imports re, json, base64, hashlib, ElementTree, quote
\* and HTTPBasicAuth, but not logging: evaluating logging.info(...) in that
\* module raises NameError.
LoggingImported == FALSE

RuleName(rule) == <<"DreamPi", rule.protocol, rule.external>>

Entry(client_ip, rule) ==
    [name |-> RuleName(rule), protocol |-> rule.protocol, external |-> rule.external,
     internal |-> rule.internal, ip |-> client_ip]

\* the answer of the router to the k-th request of one call
Answer(statuses, k) == statuses[((k - 1) % Len(statuses)) + 1]

RECURSIVE PostPerRuleGoesOn(_, _, _, _, _, _)
\* a faulty loop that goes on with the next rule after a failed request
PostPerRuleGoesOn(client_ip, port_rules, statuses, k, table, sent) ==
    IF k > Len(port_rules)
    THEN [ret |-> IF Len(table) = Len(port_rules) THEN "true" ELSE "false",
          table |-> table, sent |-> sent]
    ELSE IF Answer(statuses, k) = "200"
         THEN PostPerRuleGoesOn(client_ip, port_rules, statuses, k + 1,
                                Append(table, Entry(client_ip, port_rules[k])), sent + 1)
         ELSE PostPerRuleGoesOn(client_ip, port_rules, statuses, k + 1, table, sent + 1)

RECURSIVE PostPerRule(_, _, _, _, _, _)
\* for rule in port_rules: post one add-rule request; a status other than
\* 200 returns False, an exception is caught and returns False
PostPerRule(client_ip, port_rules, statuses, k, table, sent) ==
    IF k > Len(port_rules) THEN [ret |-> "true", table |-> table, sent |-> sent]
    ELSE IF Answer(statuses, k) = "200"
         THEN PostPerRule(client_ip, port_rules, statuses, k + 1,
                          Append(table, Entry(client_ip, port_rules[k])), sent + 1)
         ELSE [ret |-> "false", table |-> table, sent |-> sent + 1]

FiosG1100Handler_setup_port_forward(client_ip, port_rules, statuses, table) ==
    PostPerRule(client_ip, port_rules, statuses, 1, table, 0)

LinksysHandler_setup_port_forward(client_ip, port_rules, statuses, table) ==
    PostPerRule(client_ip, port_rules, statuses, 1, table, 0)

\* one form post carrying the whole table, rule i in the slots vts_*_x_i
ASUSHandler_setup_port_forward(client_ip, port_rules, statuses, table) ==
    LET n == Len(port_rules)
        slots == [i \in 1..n |-> Entry(client_ip, port_rules[i])]
        rest == IF Len(table) > n THEN SubSeq(table, n + 1, Len(table)) ELSE <<>>
    IN  IF Answer(statuses, 1) = "200"
        THEN [ret |-> "true", table |-> slots \o rest, sent |-> 1]
        ELSE [ret |-> "false", table |-> table, sent |-> 1]

Instruction(client_ip, rule) ==
    [protocol |-> rule.protocol, external |-> rule.external, ip |-> client_ip,
     internal |-> rule.internal]

\* builds the instruction list, then logs it and returns False; no request
GenericHandler_setup_port_forward(client_ip, port_rules) ==
    LET instructions == [i \in 1..Len(port_rules) |-> Instruction(client_ip, port_rules[i])]
    IN  IF LoggingImported
        THEN [ret |-> "false", instructions |-> instructions, sent |-> 0]
        ELSE [ret |-> "NameError", instructions |-> <<>>, sent |-> 0]

\* handler.setup_port_forward dispatched on the handler's class
Handler_setup_port_forward(cls, client_ip, port_rules, statuses, table) ==
    IF cls = "GenericHandler"
    THEN LET g == GenericHandler_setup_port_forward(client_ip, port_rules)
         IN  [ret |-> g.ret, table |-> table, sent |-> g.sent]
    ELSE IF cls = "ASUSHandler"
    THEN ASUSHandler_setup_port_forward(client_ip, port_rules, statuses, table)
    ELSE IF cls = "FiosG1100Handler"
    THEN FiosG1100Handler_setup_port_forward(client_ip, port_rules, statuses, table)
    ELSE LinksysHandler_setup_port_forward(client_ip, port_rules, statuses, table)

\* a vendor login posts the credentials and returns whether the answer
\* carries a token (or has status 200); every exception is caught
Vendor_login(resp) == IF resp = "accept" THEN "ok" ELSE "fail"

\* a logging call of router_handlers.py: it raises unless logging is imported
try_basic_auth(resp) ==
    IF resp = "accept" THEN (IF LoggingImported THEN "true" ELSE "NameError")
    ELSE IF resp = "reject" THEN "false"
    ELSE (IF LoggingImported THEN "false" ELSE "NameError")

try_form_auth(resp) ==
    IF resp = "accept" THEN (IF LoggingImported THEN "true" ELSE "NameError")
    ELSE IF resp = "reject" THEN "false"
    ELSE (IF LoggingImported THEN "false" ELSE "NameError")

try_digest_auth(resp) ==
    IF resp = "accept" THEN (IF LoggingImported THEN "true" ELSE "NameError")
    ELSE IF resp = "reject" THEN "false"
    ELSE (IF LoggingImported THEN "false" ELSE "NameError")

\* for method in [basic, form, digest]: if method(...): return True;
\* an exception escaping a method reaches login's except clause, which logs.
\* resp[1], resp[2], resp[3] are the router's answers to the three strategies
GenericHandler_login(resp) ==
    LET b == try_basic_auth(resp[1])
        f == try_form_auth(resp[2])
        d == try_digest_auth(resp[3])
        first == IF b # "false" THEN b ELSE IF f # "false" THEN f ELSE d
    IN  IF first = "true" THEN "ok"
        ELSE IF first = "false" THEN "fail"
        ELSE (IF LoggingImported THEN "fail" ELSE "raise")

\* handler.login dispatched on the handler's class
Handler_login(cls, resp) ==
    IF cls = "GenericHandler" THEN GenericHandler_login(resp) ELSE Vendor_login(resp[1])

\* login_paths and form_data_variants of _try_form_auth
login_paths == <<"/login.cgi", "/login.asp", "/login.htm", "/login", "/cgi-bin/login">>

form_data_variants ==
    <<"username/password", "user/pass", "login/password", "admin_name/admin_pwd">>

\* the requests one strategy of GenericHandler.login sends: the form cascade
\* posts until a status below 400; an exception skips the rest of a path
StrategyRequests(strategy, resp) ==
    IF strategy # "form" \/ resp = "accept" THEN 1
    ELSE IF resp = "reject" THEN Len(login_paths) * Len(form_data_variants)
    ELSE (IF LoggingImported THEN Len(login_paths) ELSE 1)

\* the strategies GenericHandler.login runs, in the order of auth_methods
GenericHandler_strategies(resp) ==
    LET run == IF try_basic_auth(resp[1]) # "false" THEN <<"basic">>
               ELSE IF try_form_auth(resp[2]) # "false" THEN <<"basic", "form">>
               ELSE <<"basic", "form", "digest">>
    IN  [k \in DOMAIN run |->
            [strategy |-> run[k], requests |-> StrategyRequests(run[k], resp[k])]]

\* the transport context of a handler: session.auth, the Authorization
\* header of session.headers, self.token
SessionAuth(kind, username, password) ==
    [kind |-> kind, username |-> username, password |-> password]

NoContext ==
    [auth |-> SessionAuth("None", PyNone, PyNone), authorization |-> PyNone,
     token |-> PyNone]

\* the context after handler.login(username, password): _try_basic_auth
\* assigns session.auth before its request and _try_digest_auth after a
\* success; FiosG1100Handler assigns session.auth after a 200; the other
\* handlers assign self.token the cookie of the answer, None without one
Handler_login_context(cls, username, password, resp, c) ==
    IF cls = "GenericHandler"
    THEN IF GenericHandler_login(resp) = "ok" /\ Len(GenericHandler_strategies(resp)) = 3
         THEN [c EXCEPT !.auth = SessionAuth("HTTPDigestAuth", username, password)]
         ELSE [c EXCEPT !.auth = SessionAuth("tuple", username, password)]
    ELSE IF cls = "FiosG1100Handler"
    THEN IF resp[1] = "accept"
         THEN [c EXCEPT !.auth = SessionAuth("HTTPBasicAuth", username, password)]
         ELSE c
    ELSE IF resp[1] = "exc" THEN c
    ELSE [c EXCEPT !.token = IF resp[1] = "accept" THEN "cookie" ELSE PyNone]

\* handler.login(username, password) on a handler whose context is c
Handler_login_call(cls, username, password, resp, c) ==
    [cls |-> cls, username |-> username, password |-> password, resp |-> resp,
     strategies |-> IF cls = "GenericHandler" THEN GenericHandler_strategies(resp)
                    ELSE <<>>,
     outcome |-> Handler_login(cls, resp),
     before |-> c,
     after |-> Handler_login_context(cls, username, password, resp, c)]

NoLoginCall ==
    [cls |-> "None", username |-> PyNone, password |-> PyNone, resp |-> <<>>,
     strategies |-> <<>>, outcome |-> "none", before |-> NoContext, after |-> NoContext]

----------------------------------------------------------------------------
(* RouterManager *)

NoHandler == [cls |-> "None", router_ip |-> None]

NoAuth == [username |-> PyNone, password |-> PyNone]

\* RouterManager.__init__(router_type=None)
RouterManager_init(router_type) ==
    [router_ip |-> None,
     router_type |-> router_type,
     handler |-> IF TruthyTag(router_type)
                 THEN [cls |-> get_handler(router_type), router_ip |-> None]
                 ELSE NoHandler,
     auth |-> NoAuth]

\* the token the routing listing yields: the first regex match of ipconfig
\* (none leaves router_ip as it is), the third field of `ip route` (fewer
\* fields raise IndexError, a failed command CalledProcessError)
GatewayToken(m, listing) ==
    IF listing.failed THEN [raised |-> TRUE, ip |-> m.router_ip]
    ELSE IF listing.os = "nt"
    THEN [raised |-> FALSE,
          ip |-> IF listing.fields # <<>> THEN listing.fields[1] ELSE m.router_ip]
    ELSE IF Len(listing.fields) < 3 THEN [raised |-> TRUE, ip |-> m.router_ip]
    ELSE [raised |-> FALSE, ip |-> listing.fields[3]]

\* RouterManager.find_router
find_router(m, listing) ==
    LET g == GatewayToken(m, listing)
    IN  IF g.raised THEN [ret |-> FALSE, rm |-> m]
        ELSE IF ~Truthy(g.ip) THEN [ret |-> FALSE, rm |-> [m EXCEPT !.router_ip = g.ip]]
        ELSE [ret |-> TRUE,
              rm |-> [m EXCEPT !.router_ip = g.ip,
                               !.handler = IF m.handler.cls # "None"
                                           THEN [@ EXCEPT !.router_ip = g.ip]
                                           ELSE @]]

max_attempts == 3

RECURSIVE LoginAttemptsNoStop(_, _, _, _)
\* a faulty loop that goes on after a successful handler.login
LoginAttemptsNoStop(cls, resps, attempt, log) ==
    IF attempt >= max_attempts
    THEN [ret |-> \E k \in 1..Len(log) : log[k] = "ok", log |-> log]
    ELSE LoginAttemptsNoStop(cls, resps, attempt + 1,
                             Append(log, Handler_login(cls, resps[attempt + 1])))

RECURSIVE LoginAttempts(_, _, _, _)
\* for attempt in range(max_attempts): return True at the first
\* handler.login that returns True; a False and an exception both go on
LoginAttempts(cls, resps, attempt, log) ==
    IF attempt >= max_attempts THEN [ret |-> FALSE, log |-> log]
    ELSE LET o == Handler_login(cls, resps[attempt + 1])
         IN  IF o = "ok" THEN [ret |-> TRUE, log |-> Append(log, o)]
             ELSE LoginAttempts(cls, resps, attempt + 1, Append(log, o))

RECURSIVE LoginCalls(_, _, _, _, _)
\* the handler.login(username, password) calls of that loop
LoginCalls(cls, username, password, resps, attempt) ==
    IF attempt >= max_attempts THEN <<>>
    ELSE LET o == Handler_login(cls, resps[attempt + 1])
             call == [username |-> username, password |-> password, outcome |-> o]
         IN  IF o = "ok" THEN <<call>>
             ELSE <<call>> \o LoginCalls(cls, username, password, resps, attempt + 1)

\* the handler.login calls of login_to_router(username, password)
login_calls(m, username, password, resps) ==
    IF m.handler.cls = "None" THEN <<>>
    ELSE LoginCalls(m.handler.cls, username, password, resps, 0)

\* RouterManager.login_to_router(username=None, password=None)
login_to_router(m, resps) ==
    IF m.handler.cls = "None" THEN [ret |-> FALSE, log |-> <<>>]
    ELSE LoginAttempts(m.handler.cls, resps, 0, <<>>)

\* RouterManager.setup_port_forward(target_device, console_type)
setup_port_forward(m, target_device, console_type, statuses, table) ==
    IF m.handler.cls = "None"
    THEN [ret |-> FALSE, calls |-> <<>>, table |-> table, sent |-> 0]
    ELSE LET port_rules == get_port_rules(console_type)
             h == Handler_setup_port_forward(m.handler.cls, target_device, port_rules,
                                             statuses, table)
         IN  [ret |-> (h.ret = "true"),
              calls |-> << [ip |-> target_device, rules |-> port_rules] >>,
              table |-> h.table, sent |-> h.sent]

----------------------------------------------------------------------------
(* Api.start_port_forward *)

RequiredKeys == {"console", "routerType", "credentials"}

Failure(err) ==
    [success |-> FALSE, error |-> err, ip |-> None, ports |-> <<>>, lines |-> <<>>]

NoResult == Failure("none")

MissingParameters == "Invalid configuration: Missing required parameters"

InvalidCredentials == "Invalid credentials: Username and password are required"

NoRouter == "Unable to locate router on the network"

LoginFailed == "Router login failed. Check your credentials."

DreamPiNotFound == "Could not find DreamPi on the network"

NoLocalIP == "Could not determine local PC IP"

InvalidConsole == "Invalid console type"

ManualSteps == "Please configure these ports manually:"

ApplyFailed == "Failed to configure port forwarding"

\* f'Unexpected error: {str(e)}' for the AttributeError of None.get
UnexpectedError == "Unexpected error: 'NoneType' object has no attribute 'get'"

AttributeError == "AttributeError"

\* a faulty validation that lets an empty password pass
ValidateWithoutPassword(data) ==
    IF ~(RequiredKeys \subseteq data.has) THEN MissingParameters
    ELSE IF data.credentials # "dict" THEN AttributeError
    ELSE IF data.username = "" THEN InvalidCredentials
    ELSE "ok"

\* the validation of the payload: "ok", the error it is rejected with, or
\* the exception credentials.get raises when credentials is null
Validate(data) ==
    IF ~(RequiredKeys \subseteq data.has) THEN MissingParameters
    ELSE IF data.credentials # "dict" THEN AttributeError
    ELSE IF data.username = "" \/ data.password = "" THEN InvalidCredentials
    ELSE "ok"

\* a faulty handler that lets the exception leave start_port_forward
TryExceptEscapes(v) ==
    IF v = AttributeError THEN [pc |-> "Raised", result |-> NoResult]
    ELSE [pc |-> "Done", result |-> Failure(v)]

\* try: ... except Exception as e: the error result made of the exception
TryExcept(v) ==
    IF v = AttributeError THEN [pc |-> "Done", result |-> Failure(UnexpectedError)]
    ELSE [pc |-> "Done", result |-> Failure(v)]

\* a faulty check that never takes the manual address
UseManualIPNever(router_ip) == FALSE

\* if router_ip: the manual address is used
UseManualIP(router_ip) == Truthy(router_ip)

\* subnet_parts = router_ip.split('.')[:3]; target_ip = f"{...}.98"
DreamcastIP(router_ip) ==
    IF router_ip.kind = "str"
    THEN Str((IF Len(router_ip.text) > 3 THEN SubSeq(router_ip.text, 1, 3)
              ELSE router_ip.text) \o <<98>>)
    ELSE Word

PortLabels(port_rules) ==
    [i \in 1..Len(port_rules) |->
        [protocol |-> port_rules[i].protocol, external |-> port_rules[i].external]]

ManualLines(target_ip, port_rules) ==
    [i \in 1..Len(port_rules) |-> Instruction(target_ip, port_rules[i])]

\* the rules and the target of the session: target None with the error the
\* session returns when no target is resolved
ResolveTarget(m, data, dreampi, localip) ==
    IF data.console = "dreamcast"
    THEN [error |-> "ok", rules |-> get_dreamcast_port_rules, ip |-> DreamcastIP(m.router_ip)]
    ELSE IF data.console = "saturn"
    THEN IF data.targetDevice = "dreampi"
         THEN [error |-> IF Truthy(dreampi) THEN "ok" ELSE DreamPiNotFound,
               rules |-> SaturnRules, ip |-> dreampi]
         ELSE [error |-> IF Truthy(localip) THEN "ok" ELSE NoLocalIP,
               rules |-> SaturnRules, ip |-> localip]
    ELSE [error |-> InvalidConsole, rules |-> <<>>, ip |-> None]

NoApply == [ret |-> FALSE, calls |-> <<>>, table |-> <<>>, sent |-> 0]

\* the session after a successful login: target resolution, the
\* RouterManager.setup_port_forward call and the result returned
ApplyStage(m, data, dreampi, localip, statuses, table) ==
    LET t == ResolveTarget(m, data, dreampi, localip)
    IN  IF t.error # "ok"
        THEN [result |-> Failure(t.error), setup |-> <<>>,
              apply |-> [NoApply EXCEPT !.table = table]]
        ELSE LET a == setup_port_forward(m, t.ip, ArgList(t.rules), statuses, table)
                 call == << [target |-> t.ip, arg |-> ArgList(t.rules)] >>
             IN  IF a.ret
                 THEN [result |-> [success |-> TRUE, error |-> "none", ip |-> t.ip,
                                   ports |-> PortLabels(t.rules), lines |-> <<>>],
                       setup |-> call, apply |-> a]
                 ELSE IF data.routerType = "Generic"
                 THEN [result |-> [success |-> FALSE, error |-> ManualSteps,
                                   ip |-> None, ports |-> <<>>,
                                   lines |-> ManualLines(t.ip, t.rules)],
                       setup |-> call, apply |-> a]
                 ELSE [result |-> Failure(ApplyFailed), setup |-> call, apply |-> a]

\* a faulty login check that does not return on a failed login
AfterLoginNoReturn(m, data, loggedIn, dreampi, localip, statuses, table) ==
    ApplyStage(m, data, dreampi, localip, statuses, table)

\* if not login_to_router(): return the login failure; else go on
AfterLogin(m, data, loggedIn, dreampi, localip, statuses, table) ==
    IF ~loggedIn
    THEN [result |-> Failure(LoginFailed), setup |-> <<>>,
          apply |-> [NoApply EXCEPT !.table = table]]
    ELSE ApplyStage(m, data, dreampi, localip, statuses, table)

----------------------------------------------------------------------------
(* Text: a Python string as the sequence of its characters *)

DigitChars == <<"0", "1", "2", "3", "4", "5", "6", "7", "8", "9">>

\* str(n) for an octet
Digits(n) ==
    IF n < 10 THEN << DigitChars[n + 1] >>
    ELSE IF n < 100 THEN << DigitChars[(n \div 10) + 1], DigitChars[(n % 10) + 1] >>
    ELSE << DigitChars[(n \div 100) + 1], DigitChars[((n \div 10) % 10) + 1],
            DigitChars[(n % 10) + 1] >>

RECURSIVE Dotted(_)
\* '.'.join of the octets
Dotted(octets) ==
    IF octets = <<>> THEN <<>>
    ELSE Digits(Head(octets))
         \o (IF Len(octets) > 1 THEN <<".">> \o Dotted(Tail(octets)) ELSE <<>>)

\* text.startswith(prefix)
startswith(text, prefix) ==
    Len(prefix) <= Len(text) /\ SubSeq(text, 1, Len(prefix)) = prefix

\* text.endswith(suffix)
endswith(text, suffix) ==
    Len(suffix) <= Len(text)
    /\ SubSeq(text, Len(text) - Len(suffix) + 1, Len(text)) = suffix

\* pattern in text
contains(text, pattern) ==
    LET t == text
    IN  \E i \in 1..(Len(t) - Len(pattern) + 1) : SubSeq(t, i, i + Len(pattern) - 1) = pattern

UpperCase ==
    <<"A", "B", "C", "D", "E", "F", "G", "H", "I", "J", "K", "L", "M", "N", "O", "P", "Q",
       "R", "S", "T", "U", "V", "W", "X", "Y", "Z">>

LowerCase ==
    <<"a", "b", "c", "d", "e", "f", "g", "h", "i", "j", "k", "l", "m", "n", "o", "p", "q",
       "r", "s", "t", "u", "v", "w", "x", "y", "z">>

\* the lower-case letter of each upper-case letter
LowerOf ==
    [c \in {UpperCase[i] : i \in DOMAIN UpperCase} |->
        LowerCase[CHOOSE i \in DOMAIN UpperCase : UpperCase[i] = c]]

LowerChar(c) == IF c \in DOMAIN LowerOf THEN LowerOf[c] ELSE c

\* text.lower()
lower(text) == [i \in DOMAIN text |-> LowerChar(text[i])]

\* a string value that is kept as text
TextStr(chars) == [kind |-> "text", text |-> chars]

----------------------------------------------------------------------------
(* find_dreampi: the sweep of the subnet and the prompts *)

dreampi_hostname_patterns ==
    << <<"d", "r", "e", "a", "m", "p", "i">>,
       <<"d", "r", "e", "a", "m", "-", "p", "i">>,
       <<"d", "r", "e", "a", "m", "_", "p", "i">>,
       <<"r", "p", "i">>,
       <<"r", "a", "s", "p", "b", "e", "r", "r", "y", "p", "i">>,
       <<"r", "a", "s", "p", "b", "e", "r", "r", "y", "-", "p", "i">> >>

pi_mac_prefixes ==
    << <<"B", "8", ":", "2", "7", ":", "E", "B">>,
       <<"D", "C", ":", "A", "6", ":", "3", "2">>,
       <<"E", "4", ":", "5", "F", ":", "0", "1">>,
       <<"D", "8", ":", "3", "A", ":", "D", "D">>,
       <<"B", "8", ":", "8", "1", ":", "9", "8">> >>

dreampi_ports == <<65432, 20001, 20002>>

\* any(mac.startswith(prefix) for prefix in pi_mac_prefixes)
mac_match(mac) ==
    \E k \in DOMAIN pi_mac_prefixes : startswith(mac, pi_mac_prefixes[k])

\* check_mac_pattern: prefix.lower() in line.lower(), for its own list of
\* prefixes, which are the first three of find_dreampi's
check_mac_pattern_match(line) ==
    \E k \in 1..3 : contains(lower(line), lower(pi_mac_prefixes[k]))

\* socket.gethostbyaddr(ip)[0].lower(), "" when the lookup fails
hostname_of(host) == IF host.resolves THEN lower(host.name) ELSE <<>>

\* any(pattern in hostname for pattern in dreampi_hostname_patterns)
hostname_match(hostname) ==
    \E k \in DOMAIN dreampi_hostname_patterns :
        contains(hostname, dreampi_hostname_patterns[k])

\* connect_ex returns 0 on one of the DreamPi ports
port_match(host) == \E k \in DOMAIN dreampi_ports : dreampi_ports[k] \in host.open

\* if mac_match or hostname_match or port_match
Candidate(host) ==
    mac_match(host.mac) \/ hostname_match(hostname_of(host)) \/ port_match(host)

\* the last octets of the addresses swept: the /24 without .0 and .255
ip_list == [k \in 1..254 |-> k]

batch_size == 50

Min(a, b) == IF a < b THEN a ELSE b

\* batch = ip_list[i:i+batch_size]: its first and last address and its length
Batch(i) ==
    LET last == Min(i + batch_size, Len(ip_list))
    IN  [first |-> ip_list[i + 1], last |-> ip_list[last], size |-> last - i]

RECURSIVE BatchesOverlapping(_)
\* a faulty loop whose batches share their end addresses
BatchesOverlapping(i) ==
    IF i >= Len(ip_list) THEN <<>>
    ELSE << Batch(i) >> \o BatchesOverlapping(i + batch_size - 1)

RECURSIVE Batches(_)
\* for i in range(0, total_ips, batch_size): the batches given to srp
Batches(i) ==
    IF i >= Len(ip_list) THEN <<>>
    ELSE << Batch(i) >> \o Batches(i + batch_size)

RECURSIVE SweepBatches(_, _, _, _)
\* for i in range(0, total_ips, batch_size): the answers to the batch, in
\* the order received, and those that qualify appended to discovered_ips
SweepBatches(prefix, arp, i, discovered_ips) ==
    IF i >= Len(ip_list) THEN discovered_ips
    ELSE LET batch == {ip_list[k] : k \in (i + 1)..Min(i + batch_size, Len(ip_list))}
             received == SelectSeq(arp, LAMBDA h : h.ip \in batch)
             found == SelectSeq(received, Candidate)
         IN  SweepBatches(prefix, arp, i + batch_size,
                          discovered_ips
                          \o [k \in DOMAIN found |-> prefix \o << found[k].ip >>])

\* network_prefix = '.'.join(local_ip.split('.')[:3])
NetworkPrefix(local_ip) ==
    IF Len(local_ip.text) > 3 THEN SubSeq(local_ip.text, 1, 3) ELSE local_ip.text

\* scan_dreampi_ports: for i in range(2, 254), the first address with one
\* of the DreamPi ports open; an exception of a probe is swallowed
scan_dreampi_ports(network_prefix, hosts) ==
    LET open == {i \in 2..253 :
                    \E k \in DOMAIN hosts : hosts[k].ip = i /\ port_match(hosts[k])}
    IN  IF open = {} THEN None
        ELSE TextStr(network_prefix \o <<".">>
                     \o Digits(CHOOSE i \in open : \A j \in open : i <= j))

\* hosts are the hosts of the subnet, scapy the outcome of importing and
\* running the sweep library (an srp that raises does so on its first
\* batch), batches the batches swept, arp the answers to the sweep
NoFrame ==
    [network_prefix |-> <<>>, scapy |-> "none", hosts |-> <<>>, batches |-> <<>>,
     arp |-> <<>>,
     discovered_ips |-> <<>>,
     choice |-> [kind |-> "none", n |-> 0],
     manual_input |-> [kind |-> "none", octets |-> <<>>, text |-> <<>>],
     returned |-> None]

----------------------------------------------------------------------------
(* get_router_subnet_ip: the local address on the router's subnet *)

vpn_patterns ==
    << <<"v", "p", "n">>, <<"t", "a", "p", "-", "w", "i", "n", "d", "o", "w", "s">>, <<"t",
       "u", "n", "n", "e", "l">>, <<"t", "u", "n">>, <<"t", "a", "p">> >>

\* a line of the adapter listing: its stripped text and the address the
\* address pattern finds in it (none: the empty tuple)
Line(text, ip) == [text |-> text, ip |-> ip]

\* any(pattern in line.lower() for pattern in vpn_patterns)
VpnLine(line) ==
    LET low == lower(line.text)
    IN  \E k \in DOMAIN vpn_patterns : contains(low, vpn_patterns[k])

\* router_ip of get_router_subnet_ip: gateways[0] if gateways else None,
\* output.split()[2]; raised when a command fails or has too few fields
SubnetGateway(listing) ==
    IF listing.failed THEN [raised |-> TRUE, ip |-> None]
    ELSE IF listing.os = "nt"
    THEN [raised |-> FALSE,
          ip |-> IF listing.fields # <<>> THEN listing.fields[1] ELSE None]
    ELSE IF Len(listing.fields) < 3 THEN [raised |-> TRUE, ip |-> None]
    ELSE [raised |-> FALSE, ip |-> listing.fields[3]]

\* '.'.join(ip.split('.')[:3]) == router_subnet
SameSubnet(ip, router_ip) ==
    /\ router_ip.kind = "str"
    /\ SubSeq(ip, 1, 3)
       = (IF Len(router_ip.text) > 3 THEN SubSeq(router_ip.text, 1, 3) ELSE router_ip.text)

RECURSIVE ScanLines(_, _, _, _, _)
\* for line in output.split('\n'): current_adapter is None or the text
\* before the colon of the last line that ended with one
ScanLines(os, lines, k, current_adapter, router_ip) ==
    IF k > Len(lines) THEN None
    ELSE LET line == lines[k]
         IN  IF VpnLine(line) THEN ScanLines(os, lines, k + 1, None, router_ip)
             ELSE IF os = "nt"
             THEN IF endswith(line.text, <<":">>)
                  THEN ScanLines(os, lines, k + 1,
                                 TextStr(SubSeq(line.text, 1, Len(line.text) - 1)),
                                 router_ip)
                  ELSE IF /\ current_adapter.kind = "text" /\ current_adapter.text # <<>>
                          /\ contains(line.text, <<"I", "P", "v", "4", " ", "A", "d", "d",
                             "r", "e", "s", "s">>)
                          /\ line.ip # <<>>
                          /\ SameSubnet(line.ip, router_ip)
                  THEN Str(line.ip)
                  ELSE ScanLines(os, lines, k + 1, current_adapter, router_ip)
             ELSE IF /\ contains(line.text, <<"i", "n", "e", "t", " ">>)
                     /\ line.ip # <<>>
                     /\ SameSubnet(line.ip, router_ip)
             THEN Str(line.ip)
             ELSE ScanLines(os, lines, k + 1, current_adapter, router_ip)

\* get_router_subnet_ip(): None when a command fails or no gateway is found
get_router_subnet_ip(listing, lines) ==
    LET g == SubnetGateway(listing)
    IN  IF g.raised \/ ~Truthy(g.ip) THEN None
        ELSE ScanLines(listing.os, lines, 1, None, g.ip)

NoCall == [os |-> "", router_ip |-> None, adapters |-> <<>>, returned |-> None]

----------------------------------------------------------------------------
(* Inputs *)

\* length of the answer pattern of the mock router
MaxAnswers == 3

Gateway == <<192, 168, 1, 1>>

GatewayIPs == {Gateway, <<10, 0, 0, 1>>}

TargetIPs == {Str(<<192, 168, 1, 98>>), Str(<<192, 168, 1, 50>>)}

SessionTags == {"ASUS", "Fios-G1100", "Generic", "asus"}

LookupTags == RegisteredTags \cup {"Generic", "asus", "Unknown", "", PyNone}

Sessions == {1, 2}

Passwords == {"", "secret", "hunter2"}

Requests ==
    [has : {RequiredKeys} \cup {RequiredKeys \ {k} : k \in RequiredKeys} \cup {{}},
     console : {"dreamcast", "saturn", "n64"},
     routerType : SessionTags,
     routerIP : {None, Str(<<>>), Str(Gateway)},
     username : {"", "admin"},
     credentials : {"dict", "null"},
     password : Passwords,
     targetDevice : {"dreampi", "pc"}]

NoRequest ==
    [has |-> {}, console |-> "", routerType |-> "", routerIP |-> None,
     username |-> "", credentials |-> "dict", password |-> "", targetDevice |-> ""]

\* a line of the log file: level, message and the payload values it prints
LogLine(level, msg, arg) == [level |-> level, msg |-> msg, arg |-> arg]

\* json.dumps(data): the text of the payload, which has the values of the
\* keys that are present
json_dumps(data) ==
    LET creds == "credentials" \in data.has /\ data.credentials = "dict"
    IN  [has |-> data.has,
         console |-> IF "console" \in data.has THEN data.console ELSE "",
         routerType |-> IF "routerType" \in data.has THEN data.routerType ELSE "",
         routerIP |-> data.routerIP,
         credentials |-> IF "credentials" \in data.has THEN data.credentials ELSE "",
         username |-> IF creds THEN data.username ELSE "",
         password |-> IF creds THEN data.password ELSE "",
         targetDevice |-> data.targetDevice]

\* the lines logged up to the construction of the RouterManager
StartLog(data) ==
    << LogLine("INFO", "Starting port forwarding with data", json_dumps(data)) >>
    \o (IF Validate(data) = MissingParameters
        THEN << LogLine("ERROR", "Missing required configuration parameters", NoRequest) >>
        ELSE IF Validate(data) = InvalidCredentials
        THEN << LogLine("ERROR", "Invalid or missing credentials", NoRequest) >>
        ELSE IF Validate(data) = AttributeError
        THEN << LogLine("ERROR", "Unexpected error in port forwarding", NoRequest),
                LogLine("ERROR", "Traceback", NoRequest) >>
        ELSE <<>>)

\* the lines logged while the router address is settled
LocateLog(data, found) ==
    IF UseManualIP(data.routerIP)
    THEN << LogLine("INFO", "Using manual router IP",
                    [NoRequest EXCEPT !.routerIP = data.routerIP]) >>
    ELSE IF ~found THEN << LogLine("ERROR", "Could not find router", NoRequest) >>
    ELSE <<>>

\* the lines logged after a successful login, told from the result
TailLog(data, res) ==
    (IF data.console = "dreamcast"
     THEN << LogLine("INFO", "Processing Dreamcast configuration...", NoRequest),
             LogLine("INFO", "Using Dreamcast IP", NoRequest) >>
     ELSE IF data.console = "saturn"
     THEN << LogLine("INFO", "Processing Saturn configuration...", NoRequest) >>
          \o (IF data.targetDevice = "dreampi"
              THEN << LogLine("INFO", "Looking for DreamPi...", NoRequest),
                      IF res.error = DreamPiNotFound
                      THEN LogLine("ERROR", "Could not find DreamPi", NoRequest)
                      ELSE LogLine("INFO", "Found DreamPi at", NoRequest) >>
              ELSE << LogLine("INFO", "Getting local PC IP...", NoRequest),
                      IF res.error = NoLocalIP
                      THEN LogLine("ERROR", "Could not determine local PC IP", NoRequest)
                      ELSE LogLine("INFO", "Using local PC IP", NoRequest) >>)
     ELSE << LogLine("ERROR", "Invalid console type",
                     [NoRequest EXCEPT !.console = data.console]) >>)
    \o (IF res.error \in {DreamPiNotFound, NoLocalIP, InvalidConsole} THEN <<>>
        ELSE << LogLine("INFO", "Setting up port forwarding to", NoRequest),
                IF res.success
                THEN LogLine("INFO", "Port forwarding setup successful", NoRequest)
                ELSE IF res.error = ManualSteps
                THEN LogLine("INFO", "Generic router - providing manual configuration steps",
                             NoRequest)
                ELSE LogLine("ERROR", "Port forwarding setup failed", NoRequest) >>)

\* the lines logged from the router type on
SessionLog(data, loggedIn, res) ==
    << LogLine("INFO", "Router type set to",
               [NoRequest EXCEPT !.routerType = data.routerType]) >>
    \o (IF ~loggedIn THEN << LogLine("ERROR", "Router login failed", NoRequest) >>
        ELSE TailLog(data, res))

\* routing listings: ipconfig with and without a gateway line, `ip route`
\* with the gateway third, with a device name third, with too few fields,
\* and the command failing
Listings ==
    {[os |-> "nt", failed |-> FALSE, fields |-> <<Str(g)>>] : g \in GatewayIPs}
    \cup {[os |-> "posix", failed |-> FALSE, fields |-> <<Word, Word, Str(g), Word>>] :
             g \in GatewayIPs}
    \cup {[os |-> "nt", failed |-> FALSE, fields |-> <<>>],
          [os |-> "nt", failed |-> TRUE, fields |-> <<>>],
          [os |-> "posix", failed |-> FALSE, fields |-> <<Word, Word, Word>>],
          [os |-> "posix", failed |-> FALSE, fields |-> <<Word, Word>>],
          [os |-> "posix", failed |-> TRUE, fields |-> <<>>]}

Statuses == {"200", "500", "exc"}

AnswerPatterns == [1..MaxAnswers -> Statuses]

\* the router's answers to one login call: it accepts the credentials or
\* rejects them, and any request may fail in transport
LoginAnswers(acc) == [1..3 -> {IF acc THEN "accept" ELSE "reject", "exc"}]

\* the answers to the calls of login_to_router; drawn only for a handler,
\* and only in the first answer for a vendor handler, which makes one request
LoginEnv(m, acc) ==
    IF m.handler.cls = "None" THEN {[k \in 1..max_attempts |-> <<"exc", "exc", "exc">>]}
    ELSE IF m.handler.cls = "GenericHandler" THEN [1..max_attempts -> LoginAnswers(acc)]
    ELSE [1..max_attempts -> {a \in LoginAnswers(acc) : a[2] = a[1] /\ a[3] = a[1]}]

\* the arguments of a handler.login call made directly: those
\* login_to_router() passes, or credentials
LoginArgs == {<<PyNone, PyNone>>, <<"admin", "secret">>}

\* the context of the handler before the call: a new session, or one whose
\* auth the caller has assigned
Contexts ==
    {NoContext, [NoContext EXCEPT !.auth = SessionAuth("tuple", "admin", "secret")]}

\* the router's answers to the call: one request for a vendor handler
CallAnswers(cls) ==
    IF cls = "GenericHandler" THEN [1..3 -> {"accept", "reject", "exc"}]
    ELSE {<<a, a, a>> : a \in {"accept", "reject", "exc"}}

\* results of find_dreampi() and get_router_subnet_ip()
Found == {None} \cup TargetIPs

RuleSets ==
    {<<>>, SaturnRules, <<Rule("TCP", 3512, 3512), Rule("UDP", 3512, 3512)>>,
     <<Rule("UDP", 20675, 20675), Rule("UDP", 12079, 12079), Rule("UDP", 20675, 20675)>>}

Args ==
    {ArgStr("dreamcast"), ArgStr("saturn"), ArgStr("n64"),
     ArgList(SaturnRules), ArgList(get_dreamcast_port_rules)}

\* texts of the hosts and of the adapter listings
PiMacUpper ==
    <<"B", "8", ":", "2", "7", ":", "E", "B", ":", "1", "2", ":", "3", "4", ":", "5", "6">>

PiMacLower ==
    <<"b", "8", ":", "2", "7", ":", "e", "b", ":", "1", "2", ":", "3", "4", ":", "5", "6">>

OtherMac ==
    <<"0", "0", ":", "1", "a", ":", "2", "b", ":", "3", "c", ":", "4", "d", ":", "5", "e">>

DreamPiName == <<"D", "r", "e", "a", "m", "P", "i", ".", "l", "o", "c", "a", "l">>

NasName == <<"n", "a", "s", ".", "l", "o", "c", "a", "l">>

EthernetName == <<"E", "t", "h", "e", "r", "n", "e", "t">>

VpnName == <<"W", "o", "r", "k", " ", "V", "P", "N">>

IntelDesc ==
    <<"I", "n", "t", "e", "l", "(", "R", ")", " ", "E", "t", "h", "e", "r", "n", "e", "t">>

TapDesc ==
    <<"T", "A", "P", "-", "W", "i", "n", "d", "o", "w", "s", " ", "A", "d", "a", "p", "t",
       "e", "r", " ", "V", "9">>

Eth0 == <<"e", "t", "h", "0">>

Tun0 == <<"t", "u", "n", "0">>

AdapterHeader ==
    <<"E", "t", "h", "e", "r", "n", "e", "t", " ", "a", "d", "a", "p", "t", "e", "r", " ">>

DnsSuffixLine ==
    <<"C", "o", "n", "n", "e", "c", "t", "i", "o", "n", "-", "s", "p", "e", "c", "i", "f",
       "i", "c", " ", "D", "N", "S", " ", "S", "u", "f", "f", "i", "x", " ", ".", " ", ":">>

DescriptionLabel ==
    <<"D", "e", "s", "c", "r", "i", "p", "t", "i", "o", "n", " ", ".", " ", ":", " ">>

IPv4Label ==
    <<"I", "P", "v", "4", " ", "A", "d", "d", "r", "e", "s", "s", ".", " ", ".", " ", ":",
       " ">>

Preferred == <<"(", "P", "r", "e", "f", "e", "r", "r", "e", "d", ")">>

LinkFlags == <<":", " ", "<", "B", "R", "O", "A", "D", "C", "A", "S", "T", ",", "U", "P", ">">>

InetLabel == <<"i", "n", "e", "t", " ">>

ScopeGlobal ==
    <<"/", "2", "4", " ", "s", "c", "o", "p", "e", " ", "g", "l", "o", "b", "a", "l", " ">>

\* number of hosts that answer the ARP sweep
MaxResponders == 2

\* number of adapters in the adapter listing
MaxAdapters == 2

LocalIPs == {None, Str(<<192, 168, 1, 42>>), Str(<<10, 0, 0, 5>>)}

\* a Raspberry Pi MAC in upper and in lower case, and another vendor's
Macs ==
    {PiMacUpper,
     PiMacLower,
     OtherMac}

HostNames == {DreamPiName, NasName}

\* the number of signals a host is made with
Signals(h) ==
    (IF h.mac # OtherMac THEN 1 ELSE 0)
    + (IF h.resolves /\ h.name = DreamPiName THEN 1 ELSE 0)
    + (IF h.open # {} THEN 1 ELSE 0)

\* the hosts that may answer: last octet, MAC, reverse lookup, open ports;
\* a host has no signal, one of the three, or all of them
HostPool ==
    {h \in [ip : {10, 20, 60}, mac : Macs, resolves : BOOLEAN, name : HostNames,
            open : {{}, {20002}}] :
        /\ h.resolves \/ h.name = NasName
        /\ Signals(h) \in {0, 1, 3}}

\* the batch of the sweep an address is asked in
BatchOf(ip) == (ip - 1) \div batch_size

\* the answers to the sweep in the order received: one per address, the
\* answers to a batch before those to the next
ArpAnswers ==
    {a \in UNION {[1..n -> HostPool] : n \in 0..MaxResponders} :
        \A j, k \in DOMAIN a :
            j < k => (a[j].ip # a[k].ip /\ BatchOf(a[j].ip) <= BatchOf(a[k].ip))}

\* the hosts of the subnet, drawn only when the subnet is known
ArpEnv(local_ip) ==
    IF Truthy(local_ip) THEN ArpAnswers ELSE {<<>>}

\* the hosts probed by a port scan: first, inner and last address of the /24
ProbedHosts ==
    LET pool == [ip : {1, 10, 254}, mac : {OtherMac}, resolves : {FALSE},
                 name : {NasName}, open : {{}, {20002}}]
    IN  {a \in UNION {[1..n -> pool] : n \in 0..MaxResponders} :
            \A j, k \in DOMAIN a : j < k => a[j].ip < a[k].ip}

\* what is typed at the selection prompt: q, a number, other text, or
\* nothing because the process has no terminal
Choices ==
    {[kind |-> "q", n |-> 0], [kind |-> "text", n |-> 0], [kind |-> "eof", n |-> 0]}
    \cup {[kind |-> "int", n |-> n] : n \in 0..(MaxResponders + 1)}

\* what is typed at the manual-address prompt
ManualInputs ==
    {[kind |-> "empty", octets |-> <<>>, text |-> <<>>],
     [kind |-> "eof", octets |-> <<>>, text |-> <<>>]}
    \cup {[kind |-> "text", octets |-> o, text |-> Dotted(o)] :
             o \in {<<192, 168, 1, 7>>, <<192, 168, 10, 5>>, <<10, 0, 0, 9>>,
                    <<192, 168, 1>>}}

\* adapters of the adapter listing: name, description, whether an empty
\* detail line (one that ends with its colon) precedes the description,
\* and address
AdapterPool(os) ==
    IF os = "nt"
    THEN [name : {EthernetName, VpnName},
          desc : {IntelDesc, TapDesc},
          blank : BOOLEAN,
          ip : {<<192, 168, 1, 42>>, <<192, 168, 1, 77>>, <<10, 0, 0, 5>>}]
    ELSE [name : {Eth0, Tun0},
          desc : {<<>>},
          blank : {FALSE},
          ip : {<<192, 168, 1, 42>>, <<192, 168, 1, 77>>, <<10, 0, 0, 5>>}]

AdapterListings(os) == UNION {[1..n -> AdapterPool(os)] : n \in 0..MaxAdapters}

\* the adapter listing, drawn only when the gateway is known and the
\* listing command is run
AdapterEnv(listing) ==
    IF SubnetGateway(listing).raised \/ ~Truthy(SubnetGateway(listing).ip) THEN {<<>>}
    ELSE AdapterListings(listing.os)

\* the lines of ipconfig /all and of ip addr show for one adapter
AdapterLines(os, a) ==
    IF os = "nt"
    THEN << Line(AdapterHeader \o a.name \o <<":">>, <<>>) >>
         \o (IF a.blank THEN << Line(DnsSuffixLine, <<>>) >> ELSE <<>>)
         \o << Line(DescriptionLabel \o a.desc, <<>>),
               Line(IPv4Label \o Dotted(a.ip) \o Preferred, a.ip) >>
    ELSE << Line(<<"2", ":", " ">> \o a.name \o LinkFlags, <<>>),
            Line(InetLabel \o Dotted(a.ip) \o ScopeGlobal \o a.name, a.ip) >>

RECURSIVE ListingLines(_, _)
ListingLines(os, adapters) ==
    IF adapters = <<>> THEN <<>>
    ELSE AdapterLines(os, Head(adapters)) \o ListingLines(os, Tail(adapters))

\* the payloads of the two concurrent start_port_forward calls
ConcRequests ==
    {r \in Requests :
        /\ r.has = RequiredKeys /\ r.credentials = "dict" /\ r.username = "admin"
        /\ r.console = "saturn" /\ r.targetDevice = "pc"
        /\ r.routerType \in {"ASUS", "Generic"}
        /\ r.routerIP \in {None, Str(Gateway)}}

NoInvocation == [pc |-> "Idle", request |-> NoRequest, used |-> {}, result |-> NoResult]

NoManager == RouterManager_init(PyNone)

NoRet == [value |-> "none", instructions |-> <<>>, answers |-> <<>>]

NoLookup == [tag |-> PyNone, cls |-> ""]

BoolStr(b) == IF b THEN "true" ELSE "false"

----------------------------------------------------------------------------
(* Initial state *)

Init ==
    /\ unit = "none"
    /\ pc = "Idle"
    /\ request = NoRequest
    /\ accepts \in BOOLEAN
    /\ rm = NoManager
    /\ locatorCalls = 0
    /\ loginLog = <<>>
    /\ loginRet = "none"
    /\ attempts = <<>>
    /\ loginCall = NoLoginCall
    /\ setupCalls = <<>>
    /\ handlerCalls = <<>>
    /\ routerTable = <<>>
    /\ tableOnce = <<>>
    /\ requests = 0
    /\ ret = NoRet
    /\ lookups = [s \in Sessions |-> NoLookup]
    /\ result = NoResult
    /\ logFile = <<>>
    /\ discovery = NoFrame
    /\ subnet = NoCall
    /\ invocations = [i \in Sessions |-> NoInvocation]
    /\ managers = [i \in Sessions |-> NoManager]
    /\ router_manager = 0

----------------------------------------------------------------------------
(* The session: Api.start_port_forward, in three steps *)

\* validation of the payload and construction of the RouterManager
ApiStart(data) ==
    /\ pc = "Idle"
    /\ unit' = "api"
    /\ request' = data
    /\ logFile' = logFile \o StartLog(data)
    /\ IF Validate(data) # "ok"
       THEN /\ result' = TryExcept(Validate(data)).result
            /\ pc' = TryExcept(Validate(data)).pc
            /\ rm' = rm
       ELSE /\ rm' = RouterManager_init(PyNone)
            /\ pc' = "LocatingGateway"
            /\ result' = result
    /\ UNCHANGED <<accepts, locatorCalls, loginLog, loginRet, attempts, loginCall,
                   setupCalls, handlerCalls, routerTable, tableOnce, requests, ret,
                   lookups>>
    /\ UNCHANGED elsewhere

\* the manual router address, or find_router
ApiLocate(listing) ==
    /\ pc = "LocatingGateway"
    /\ IF UseManualIP(request.routerIP)
       THEN /\ rm' = [rm EXCEPT !.router_ip = request.routerIP]
            /\ pc' = "Authenticating"
            /\ logFile' = logFile \o LocateLog(request, TRUE)
            /\ UNCHANGED <<locatorCalls, result>>
       ELSE LET f == find_router(rm, listing)
            IN  /\ locatorCalls' = locatorCalls + 1
                /\ rm' = f.rm
                /\ logFile' = logFile \o LocateLog(request, f.ret)
                /\ IF f.ret
                   THEN pc' = "Authenticating" /\ result' = result
                   ELSE pc' = "Done" /\ result' = Failure(NoRouter)
    /\ UNCHANGED <<unit, request, accepts, loginLog, loginRet, attempts, loginCall,
                   setupCalls, handlerCalls, routerTable, tableOnce, requests, ret,
                   lookups>>
    /\ UNCHANGED elsewhere

\* the environment of the steps after a successful login, drawn only then
TailEnv(loggedIn) ==
    IF loggedIn THEN Found \X AnswerPatterns
    ELSE {<<None, [k \in 1..MaxAnswers |-> "exc"]>>}

\* router type and credentials, login_to_router, target and rule application
ApiAuthenticate ==
    /\ pc = "Authenticating"
    /\ LET m == [rm EXCEPT !.router_type = request.routerType,
                           !.auth = [username |-> request.username,
                                     password |-> request.password]]
       IN  \E resps \in LoginEnv(m, accepts) :
             LET l == login_to_router(m, resps)
             IN  \E env \in TailEnv(l.ret) :
                   LET t == AfterLogin(m, request, l.ret, env[1], env[1], env[2],
                                       routerTable)
                   IN  /\ rm' = m
                       /\ loginLog' = l.log
                       /\ attempts' = login_calls(m, PyNone, PyNone, resps)
                       /\ loginCall' = loginCall
                       /\ loginRet' = BoolStr(l.ret)
                       /\ setupCalls' = t.setup
                       /\ handlerCalls' = t.apply.calls
                       /\ routerTable' = t.apply.table
                       /\ requests' = requests + t.apply.sent
                       /\ result' = t.result
                       /\ logFile' = logFile \o SessionLog(request, l.ret, t.result)
    /\ pc' = "Done"
    /\ UNCHANGED <<unit, request, accepts, locatorCalls, tableOnce, ret, lookups>>
    /\ UNCHANGED elsewhere

----------------------------------------------------------------------------
(* The RouterManager driven directly: constructor and methods *)

MgrConstruct(router_type) ==
    /\ pc = "Idle"
    /\ unit' = "manager"
    /\ rm' = RouterManager_init(router_type)
    /\ pc' = "M_New"
    /\ UNCHANGED <<request, accepts, locatorCalls, loginLog, loginRet, attempts,
                   loginCall, setupCalls, handlerCalls, routerTable, tableOnce,
                   requests, ret, lookups, result>>
    /\ UNCHANGED <<logFile, elsewhere>>

MgrFindRouter(listing) ==
    /\ pc = "M_New"
    /\ LET f == find_router(rm, listing)
       IN  /\ rm' = f.rm
           /\ ret' = [NoRet EXCEPT !.value = BoolStr(f.ret)]
    /\ locatorCalls' = locatorCalls + 1
    /\ pc' = "M_Located"
    /\ UNCHANGED <<unit, request, accepts, loginLog, loginRet, attempts, loginCall,
                   setupCalls, handlerCalls, routerTable, tableOnce, requests, lookups,
                   result>>
    /\ UNCHANGED <<logFile, elsewhere>>

\* the caller assigns router_ip, as the session does for a manual address
MgrSetRouterIP(ip) ==
    /\ pc = "M_New"
    /\ rm' = [rm EXCEPT !.router_ip = ip]
    /\ pc' = "M_Located"
    /\ UNCHANGED <<unit, request, accepts, locatorCalls, loginLog, loginRet, attempts,
                   loginCall, setupCalls, handlerCalls, routerTable, tableOnce,
                   requests, ret, lookups, result>>
    /\ UNCHANGED <<logFile, elsewhere>>

\* login_to_router(), without arguments as main.py:190 and
\* setup_dreampi.py:713 call it
MgrLogin ==
    /\ pc = "M_Located"
    /\ \E resps \in LoginEnv(rm, accepts) :
         LET l == login_to_router(rm, resps)
         IN  /\ loginLog' = l.log
             /\ loginRet' = BoolStr(l.ret)
             /\ attempts' = login_calls(rm, PyNone, PyNone, resps)
             /\ loginCall' = loginCall
    /\ pc' = "M_Authed"
    /\ UNCHANGED <<unit, request, accepts, rm, locatorCalls, setupCalls, handlerCalls,
                   routerTable, tableOnce, requests, ret, lookups, result>>
    /\ UNCHANGED <<logFile, elsewhere>>

MgrSetup(target_device, console_type, statuses) ==
    /\ pc = "M_Authed"
    /\ LET a == setup_port_forward(rm, target_device, console_type, statuses, routerTable)
       IN  /\ setupCalls' = Append(setupCalls, [target |-> target_device,
                                                arg |-> console_type])
           /\ handlerCalls' = handlerCalls \o a.calls
           /\ routerTable' = a.table
           /\ requests' = requests + a.sent
           /\ ret' = [NoRet EXCEPT !.value = BoolStr(a.ret)]
    /\ pc' = "M_Done"
    /\ UNCHANGED <<unit, request, accepts, rm, locatorCalls, loginLog, loginRet,
                   attempts, loginCall, tableOnce, lookups, result>>
    /\ UNCHANGED <<logFile, elsewhere>>

\* login_to_router called again on a RouterManager whose session has ended
MgrLoginAgain ==
    /\ pc = "M_Done"
    /\ \E resps \in LoginEnv(rm, accepts) :
         LET l == login_to_router(rm, resps)
         IN  /\ loginLog' = l.log
             /\ loginRet' = BoolStr(l.ret)
             /\ attempts' = login_calls(rm, PyNone, PyNone, resps)
             /\ loginCall' = loginCall
    /\ pc' = "M_Reused"
    /\ UNCHANGED <<unit, request, accepts, rm, locatorCalls, setupCalls, handlerCalls,
                   routerTable, tableOnce, requests, ret, lookups, result>>
    /\ UNCHANGED <<logFile, elsewhere>>

\* setup_port_forward called again, with the same arguments, on such a
\* RouterManager
MgrSetupAgain(statuses) ==
    /\ pc = "M_Done"
    /\ LET c == setupCalls[1]
           a == setup_port_forward(rm, c.target, c.arg, statuses, routerTable)
       IN  /\ setupCalls' = Append(setupCalls, c)
           /\ handlerCalls' = handlerCalls \o a.calls
           /\ routerTable' = a.table
           /\ requests' = requests + a.sent
           /\ ret' = [NoRet EXCEPT !.value = BoolStr(a.ret)]
    /\ pc' = "M_Reused"
    /\ UNCHANGED <<unit, request, accepts, rm, locatorCalls, loginLog, loginRet,
                   attempts, loginCall, tableOnce, lookups, result>>
    /\ UNCHANGED <<logFile, elsewhere>>

----------------------------------------------------------------------------
(* The handlers and the registry called directly *)

GenericApply(client_ip, port_rules) ==
    /\ pc = "Idle"
    /\ unit' = "handler"
    /\ rm' = [NoManager EXCEPT !.handler = [cls |-> "GenericHandler",
                                            router_ip |-> Str(Gateway)]]
    /\ LET g == GenericHandler_setup_port_forward(client_ip, port_rules)
       IN  /\ ret' = [NoRet EXCEPT !.value = g.ret, !.instructions = g.instructions]
           /\ requests' = requests + g.sent
    /\ handlerCalls' = << [ip |-> client_ip, rules |-> port_rules] >>
    /\ pc' = "H_Done"
    /\ UNCHANGED <<request, accepts, locatorCalls, loginLog, loginRet, attempts,
                   loginCall, setupCalls, routerTable, tableOnce, lookups, result>>
    /\ UNCHANGED <<logFile, elsewhere>>

VendorApply(cls, client_ip, port_rules, statuses) ==
    /\ pc = "Idle"
    /\ unit' = "handler"
    /\ rm' = [NoManager EXCEPT !.handler = [cls |-> cls, router_ip |-> Str(Gateway)]]
    /\ LET h == Handler_setup_port_forward(cls, client_ip, port_rules, statuses,
                                           routerTable)
       IN  /\ ret' = [NoRet EXCEPT !.value = h.ret,
                                  !.answers = [k \in 1..h.sent |-> Answer(statuses, k)]]
           /\ routerTable' = h.table
           /\ tableOnce' = h.table
           /\ requests' = requests + h.sent
    /\ handlerCalls' = << [ip |-> client_ip, rules |-> port_rules] >>
    /\ pc' = IF ret'.value = "true" THEN "V_Once" ELSE "V_Failed"
    /\ UNCHANGED <<request, accepts, locatorCalls, loginLog, loginRet, attempts,
                   loginCall, setupCalls, lookups, result>>
    /\ UNCHANGED <<logFile, elsewhere>>

\* the same rule set applied again to the same target
VendorReapply(statuses) ==
    /\ pc = "V_Once"
    /\ LET c == handlerCalls[1]
           h == Handler_setup_port_forward(rm.handler.cls, c.ip, c.rules, statuses,
                                           routerTable)
       IN  /\ ret' = [NoRet EXCEPT !.value = h.ret,
                                  !.answers = [k \in 1..h.sent |-> Answer(statuses, k)]]
           /\ routerTable' = h.table
           /\ requests' = requests + h.sent
           /\ handlerCalls' = Append(handlerCalls, c)
    /\ pc' = IF ret'.value = "true" THEN "V_Twice" ELSE "V_Failed"
    /\ UNCHANGED <<unit, request, accepts, rm, locatorCalls, loginLog, loginRet,
                   attempts, loginCall, setupCalls, tableOnce, lookups, result>>
    /\ UNCHANGED <<logFile, elsewhere>>

\* handler.login(username, password) called on a handler
HandlerLogin(cls, args, resp, c) ==
    /\ pc = "Idle"
    /\ unit' = "handler"
    /\ rm' = [NoManager EXCEPT !.handler = [cls |-> cls, router_ip |-> Str(Gateway)]]
    /\ loginCall' = Handler_login_call(cls, args[1], args[2], resp, c)
    /\ pc' = "L_Done"
    /\ UNCHANGED <<request, accepts, locatorCalls, loginLog, loginRet, attempts,
                   setupCalls, handlerCalls, routerTable, tableOnce, requests, ret,
                   lookups, result>>
    /\ UNCHANGED <<logFile, elsewhere>>

\* a registry lookup of one of the concurrent sessions
Lookup(s, router_type) ==
    /\ pc \in {"Idle", "R"}
    /\ unit' = "registry"
    /\ pc' = "R"
    /\ lookups' = [lookups EXCEPT ![s] = [tag |-> router_type,
                                          cls |-> get_handler(router_type)]]
    /\ UNCHANGED <<request, accepts, rm, locatorCalls, loginLog, loginRet, attempts,
                   loginCall, setupCalls, handlerCalls, routerTable, tableOnce,
                   requests, ret, result>>
    /\ UNCHANGED <<logFile, elsewhere>>

----------------------------------------------------------------------------
(* find_dreampi() and get_router_subnet_ip() called directly *)

\* the variables of the session and of the RouterManager and handler drivers
sessionVars ==
    <<request, accepts, rm, locatorCalls, loginLog, loginRet, attempts, loginCall,
      setupCalls, handlerCalls, routerTable, tableOnce, requests, ret, lookups, result,
      logFile>>

concVars == <<invocations, managers, router_manager>>

\* find_dreampi up to its first prompt: the local address, the sweep, and
\* the return of a single candidate; scapy is "ok", missing or failing
FindDreampi(local_ip, scapy, hosts) ==
    /\ pc = "Idle"
    /\ unit' = "discovery"
    /\ IF ~Truthy(local_ip)
       THEN /\ discovery' = NoFrame
            /\ pc' = "D_Done"
       ELSE LET prefix == NetworkPrefix(local_ip)
                arp == IF scapy = "ok" THEN hosts ELSE <<>>
                discovered_ips == IF scapy = "ok" THEN SweepBatches(prefix, arp, 0, <<>>)
                                  ELSE <<>>
                frame == [NoFrame EXCEPT !.network_prefix = Dotted(prefix),
                                         !.scapy = scapy,
                                         !.hosts = hosts,
                                         !.batches = IF scapy = "ok" THEN Batches(0)
                                                     ELSE <<>>,
                                         !.arp = arp,
                                         !.discovered_ips = discovered_ips]
            IN  IF Len(discovered_ips) = 1
                THEN /\ discovery' = [frame EXCEPT
                                      !.returned = TextStr(Dotted(discovered_ips[1]))]
                     /\ pc' = "D_Done"
                ELSE IF Len(discovered_ips) > 1
                THEN discovery' = frame /\ pc' = "D_Prompt"
                ELSE discovery' = frame /\ pc' = "D_Manual"
    /\ UNCHANGED <<sessionVars, subnet, concVars>>

\* choice = input("Enter the number of your DreamPi (or 'q' to quit): ")
ChooseCandidate(choice) ==
    /\ pc = "D_Prompt"
    /\ IF choice.kind = "q"
       THEN /\ discovery' = [discovery EXCEPT !.choice = choice, !.returned = None]
            /\ pc' = "D_Done"
       ELSE IF choice.kind = "int" /\ choice.n \in 1..Len(discovery.discovered_ips)
       THEN /\ discovery' = [discovery EXCEPT
                             !.choice = choice,
                             !.returned = TextStr(Dotted(discovery.discovered_ips[choice.n]))]
            /\ pc' = "D_Done"
       ELSE IF choice.kind = "eof"
       THEN /\ discovery' = [discovery EXCEPT !.choice = choice]
            /\ pc' = "D_Manual"
       ELSE /\ discovery' = [discovery EXCEPT !.choice = [choice EXCEPT !.n = 0]]
            /\ pc' = "D_Prompt"
    /\ UNCHANGED <<unit, sessionVars, subnet, concVars>>

\* manual_input = input("Do you know your DreamPi's IP address? ...")
ManualAddress(manual_input) ==
    /\ pc = "D_Manual"
    /\ discovery' = [discovery EXCEPT
                     !.manual_input = manual_input,
                     !.returned = IF /\ manual_input.kind = "text"
                                     /\ manual_input.text # <<>>
                                     /\ startswith(manual_input.text, discovery.network_prefix)
                                  THEN TextStr(manual_input.text)
                                  ELSE None]
    /\ pc' = "D_Done"
    /\ UNCHANGED <<unit, sessionVars, subnet, concVars>>

\* scan_dreampi_ports(network_prefix), which no function of the program calls
ScanDreampiPorts(local_ip, hosts) ==
    /\ pc = "Idle"
    /\ unit' = "portscan"
    /\ LET network_prefix == Dotted(NetworkPrefix(local_ip))
       IN  discovery' = [NoFrame EXCEPT
                         !.network_prefix = network_prefix,
                         !.hosts = hosts,
                         !.returned = scan_dreampi_ports(network_prefix, hosts)]
    /\ pc' = "P_Done"
    /\ UNCHANGED <<sessionVars, subnet, concVars>>

GetRouterSubnetIp(listing, adapters) ==
    /\ pc = "Idle"
    /\ unit' = "subnet"
    /\ subnet' = [os |-> listing.os,
                  router_ip |-> SubnetGateway(listing).ip,
                  adapters |-> adapters,
                  returned |-> get_router_subnet_ip(listing,
                                                    ListingLines(listing.os, adapters))]
    /\ pc' = "S_Done"
    /\ UNCHANGED <<sessionVars, discovery, concVars>>

----------------------------------------------------------------------------
(* Two start_port_forward calls on one Api object, step by step *)

\* lines 140-168: validation, and self.router_manager = RouterManager()
ConcStart(i, data) ==
    /\ invocations[i].pc = "Idle"
    /\ logFile' = logFile \o StartLog(data)
    /\ IF Validate(data) # "ok"
       THEN /\ invocations' = [invocations EXCEPT
                                 ![i] = [@ EXCEPT !.request = data,
                                                  !.pc = TryExcept(Validate(data)).pc,
                                                  !.result = TryExcept(Validate(data)).result]]
            /\ UNCHANGED <<managers, router_manager>>
       ELSE /\ invocations' = [invocations EXCEPT
                                 ![i] = [@ EXCEPT !.request = data,
                                                  !.pc = "LocatingGateway"]]
            /\ managers' = [managers EXCEPT ![i] = RouterManager_init(PyNone)]
            /\ router_manager' = i
    /\ UNCHANGED <<unit, pc, request, accepts, rm, locatorCalls, loginLog, loginRet,
                   attempts, loginCall, setupCalls, handlerCalls, routerTable,
                   tableOnce, requests, ret, lookups, result, discovery, subnet>>

\* lines 171-181, on the object self.router_manager names at that moment
ConcLocate(i, listing) ==
    /\ invocations[i].pc = "LocatingGateway"
    /\ LET data == invocations[i].request
           m == router_manager
       IN  IF UseManualIP(data.routerIP)
           THEN /\ managers' = [managers EXCEPT ![m] = [@ EXCEPT !.router_ip = data.routerIP]]
                /\ invocations' = [invocations EXCEPT
                                     ![i] = [@ EXCEPT !.pc = "Configuring",
                                                      !.used = @ \cup {m}]]
                /\ logFile' = logFile \o LocateLog(data, TRUE)
           ELSE LET f == find_router(managers[m], listing)
                IN  /\ managers' = [managers EXCEPT ![m] = f.rm]
                    /\ logFile' = logFile \o LocateLog(data, f.ret)
                    /\ invocations' = [invocations EXCEPT
                                         ![i] = [@ EXCEPT
                                                   !.pc = IF f.ret THEN "Configuring"
                                                          ELSE "Done",
                                                   !.used = @ \cup {m},
                                                   !.result = IF f.ret THEN @
                                                              ELSE Failure(NoRouter)]]
    /\ UNCHANGED <<unit, pc, request, accepts, rm, locatorCalls, loginLog, loginRet,
                   attempts, loginCall, setupCalls, handlerCalls, routerTable,
                   tableOnce, requests, ret, lookups, result, discovery, subnet,
                   router_manager>>

\* lines 184-188: router type and credentials are written to that object
ConcConfigure(i) ==
    /\ invocations[i].pc = "Configuring"
    /\ LET data == invocations[i].request
           m == router_manager
       IN  /\ managers' = [managers EXCEPT
                             ![m] = [@ EXCEPT !.router_type = data.routerType,
                                              !.auth = [username |-> data.username,
                                                        password |-> data.password]]]
           /\ invocations' = [invocations EXCEPT
                                ![i] = [@ EXCEPT !.pc = "Authenticating",
                                                 !.used = @ \cup {m}]]
    /\ UNCHANGED <<unit, pc, request, accepts, rm, locatorCalls, loginLog, loginRet,
                   attempts, loginCall, setupCalls, handlerCalls, routerTable,
                   tableOnce, requests, ret, lookups, result, logFile, discovery,
                   subnet, router_manager>>

\* lines 190-271: login_to_router and what follows, on that object
ConcAuthenticate(i) ==
    /\ invocations[i].pc = "Authenticating"
    /\ LET data == invocations[i].request
           m == router_manager
       IN  \E resps \in LoginEnv(managers[m], accepts) :
             LET l == login_to_router(managers[m], resps)
             IN  \E env \in TailEnv(l.ret) :
                   LET t == AfterLogin(managers[m], data, l.ret, env[1], env[1], env[2],
                                       routerTable)
                   IN  /\ invocations' = [invocations EXCEPT
                                            ![i] = [@ EXCEPT !.pc = "Done",
                                                             !.used = @ \cup {m},
                                                             !.result = t.result]]
                       /\ logFile' = logFile \o SessionLog(data, l.ret, t.result)
                       /\ routerTable' = t.apply.table
                       /\ requests' = requests + t.apply.sent
    /\ UNCHANGED <<unit, pc, request, accepts, rm, locatorCalls, loginLog, loginRet,
                   attempts, loginCall, setupCalls, handlerCalls, tableOnce, ret,
                   lookups, result, discovery, subnet, managers, router_manager>>

----------------------------------------------------------------------------

\* the inputs of a step are drawn where the step can be taken
At(p, S) == IF pc = p THEN S ELSE {}

Next ==
    \/ \E data \in At("Idle", Requests) : ApiStart(data)
    \/ \E listing \in At("LocatingGateway", Listings) : ApiLocate(listing)
    \/ ApiAuthenticate
    \/ \E router_type \in At("Idle", SessionTags \cup {PyNone}) : MgrConstruct(router_type)
    \/ \E listing \in At("M_New", Listings) : MgrFindRouter(listing)
    \/ \E g \in At("M_New", GatewayIPs) : MgrSetRouterIP(Str(g))
    \/ MgrLogin
    \/ \E t \in At("M_Authed", TargetIPs), a \in Args, st \in AnswerPatterns :
          MgrSetup(t, a, st)
    \/ MgrLoginAgain
    \/ \E st \in At("M_Done", AnswerPatterns) : MgrSetupAgain(st)
    \/ \E t \in At("Idle", TargetIPs), r \in RuleSets : GenericApply(t, r)
    \/ \E c \in At("Idle", {"ASUSHandler", "FiosG1100Handler", "LinksysHandler"}),
          t \in TargetIPs, r \in RuleSets, st \in AnswerPatterns : VendorApply(c, t, r, st)
    \/ \E st \in At("V_Once", AnswerPatterns) : VendorReapply(st)
    \/ \E cls \in At("Idle", {"GenericHandler", "ASUSHandler", "FiosG1100Handler",
                              "LinksysHandler"}),
          args \in LoginArgs, c \in Contexts :
          \E resp \in CallAnswers(cls) : HandlerLogin(cls, args, resp, c)
    \/ \E s \in Sessions, t \in LookupTags : Lookup(s, t)
    \/ \E l \in At("Idle", LocalIPs), scapy \in {"ok", "ImportError", "Exception"} :
          \E hosts \in ArpEnv(l) : FindDreampi(l, scapy, hosts)
    \/ \E l \in At("Idle", LocalIPs \ {None}), hosts \in ProbedHosts :
          ScanDreampiPorts(l, hosts)
    \/ \E choice \in At("D_Prompt", Choices) : ChooseCandidate(choice)
    \/ \E manual_input \in At("D_Manual", ManualInputs) : ManualAddress(manual_input)
    \/ \E listing \in At("Idle", Listings) :
          \E adapters \in AdapterEnv(listing) : GetRouterSubnetIp(listing, adapters)

Spec == Init /\ [][Next]_vars

NextConc ==
    \/ \E i \in Sessions, data \in ConcRequests : ConcStart(i, data)
    \/ \E i \in Sessions, listing \in Listings : ConcLocate(i, listing)
    \/ \E i \in Sessions : ConcConfigure(i)
    \/ \E i \in Sessions : ConcAuthenticate(i)

\* two invocations on one Api object, interleaved at the statements that
\* read self.router_manager
SpecConc == Init /\ [][NextConc]_vars

----------------------------------------------------------------------------
(* Properties *)

ApiDone == unit = "api" /\ pc = "Done"

\* the errors with which a session ends before it has logged in and
\* resolved a target
EarlyErrors ==
    {MissingParameters, InvalidCredentials, NoRouter, LoginFailed, DreamPiNotFound,
     NoLocalIP, InvalidConsole}

\* C1: a session that ends in the login failure has a handler, resolved
\* from the request's vendor tag and bound to the router address, and has
\* made at least one handler.login call.
C1_HandlerDrivesAuthentication ==
    (ApiDone /\ result.error = LoginFailed) =>
        /\ rm.handler.cls = get_handler(request.routerType)
        /\ rm.handler.router_ip = rm.router_ip
        /\ Len(loginLog) >= 1

\* C2: with a handler, login_to_router makes at most 3 handler.login calls,
\* stops at the first successful one and returns True then; when every call
\* fails or raises it returns False after exactly 3 calls; the session
\* reports a False as the login failure.
C2_BoundedLoginRetries ==
    /\ (loginRet # "none" /\ rm.handler.cls # "None") =>
          /\ Len(loginLog) \in 1..3
          /\ \A k \in 1..(Len(loginLog) - 1) : loginLog[k] # "ok"
          /\ loginRet = "true" <=> loginLog[Len(loginLog)] = "ok"
          /\ loginRet = "false" => Len(loginLog) = 3
    /\ (ApiDone /\ loginRet = "false") => result = Failure(LoginFailed)

\* C2 witness: the first call fails, the second succeeds, login returns True
C2_Witness == loginLog = <<"fail", "ok">> /\ loginRet = "true"

\* C3: in a session, setup_port_forward is called only after a successful
\* login and with a resolved target; a session that ends with a failed
\* gateway location, login or target resolution has made no such call and
\* sent no rule to the router.
C3_ApplyOnlyAfterLoginAndTarget ==
    unit = "api" =>
        /\ (setupCalls # <<>> \/ handlerCalls # <<>>) =>
              /\ loginRet = "true"
              /\ \A k \in 1..Len(setupCalls) : Truthy(setupCalls[k].target)
        /\ (pc = "Done" /\ result.error \in EarlyErrors) =>
              (setupCalls = <<>> /\ handlerCalls = <<>> /\ requests = 0)

\* C3 witness: a session whose login failed has ended without the call
C3_Witness ==
    ApiDone /\ loginRet = "false" /\ result.error = LoginFailed /\ setupCalls = <<>>

\* C4: the rules the handler receives are the rules the caller submitted to
\* RouterManager.setup_port_forward, and a successful session reports
\* exactly the rules its handler received.
C4_HandlerReceivesSubmittedRules ==
    /\ Len(handlerCalls) = Len(setupCalls) =>
          \A k \in 1..Len(setupCalls) :
              setupCalls[k].arg.kind = "list" =>
                  handlerCalls[k].rules = setupCalls[k].arg.l
    /\ (ApiDone /\ result.success) =>
          /\ Len(handlerCalls) = 1
          /\ result.ports = PortLabels(handlerCalls[1].rules)
          /\ handlerCalls[1].rules = get_port_rules(ArgStr(request.console))

\* C5: a Saturn session for the tag Generic whose credentials the router
\* accepts and whose target is resolved ends in success with the three
\* manual lines TCP 65432, UDP 20001, UDP 20002 for the target.
C5_GenericEndsInManualSuccess ==
    (/\ ApiDone
     /\ request.routerType = "Generic"
     /\ request.console = "saturn"
     /\ accepts
     /\ result.error \notin {MissingParameters, InvalidCredentials, NoRouter,
                             DreamPiNotFound, NoLocalIP}) =>
        /\ result.success
        /\ Len(result.lines) = 3
        /\ \A i \in 1..3 :
              /\ result.lines[i].protocol = SaturnRules[i].protocol
              /\ result.lines[i].external = SaturnRules[i].external
              /\ Truthy(result.lines[i].ip)

\* C6: GenericHandler.setup_port_forward sends no request, does not raise,
\* returns False and produces one instruction per rule, in rule order, with
\* the rule's protocol, external port, target and internal port.
C6_GenericApplyGivesInstructions ==
    (unit = "handler" /\ pc = "H_Done") =>
        LET c == handlerCalls[1]
        IN  /\ requests = 0
            /\ ret.value = "false"
            /\ Len(ret.instructions) = Len(c.rules)
            /\ \A i \in 1..Len(c.rules) :
                  ret.instructions[i] =
                      [protocol |-> c.rules[i].protocol, external |-> c.rules[i].external,
                       ip |-> c.ip, internal |-> c.rules[i].internal]

\* C7: the result of a Generic session whose credentials the router accepts
\* is never the result of a failed authentication.
C7_GenericManualDistinctFromLoginFailure ==
    (ApiDone /\ request.routerType = "Generic" /\ accepts) =>
        result # Failure(LoginFailed)

\* C8: after a rule set has been applied twice to the same target, the
\* forwarding table equals the table after the first application.
C8_ReapplyIsIdempotent ==
    (unit = "handler" /\ pc = "V_Twice") => routerTable = tableOnce

\* C9: every lookup of every session gives GenericHandler for a tag that is
\* not registered (unknown, differently cased, empty, None) and a handler
\* class of its own for a registered tag.
C9_RegistryLookup ==
    \A s \in Sessions :
        lookups[s] # NoLookup =>
            /\ lookups[s].tag \notin RegisteredTags => lookups[s].cls = "GenericHandler"
            /\ lookups[s].tag \in RegisteredTags => lookups[s].cls # "GenericHandler"
            /\ lookups[s].tag = "ASUS" => lookups[s].cls = "ASUSHandler"
            /\ lookups[s].tag = "TP-Link" => lookups[s].cls = "TPLinkHandler"
            /\ lookups[s].tag = "Fios-G1100" => lookups[s].cls = "FiosG1100Handler"
            /\ \A r \in Sessions :
                  (lookups[r] # NoLookup /\ lookups[r].tag \in RegisteredTags) =>
                      (lookups[r].cls = lookups[s].cls <=> lookups[r].tag = lookups[s].tag)

\* C9 witness: one session has looked up a registered tag and the other the
\* same tag in another letter case
C9_Witness ==
    /\ lookups[1] = [tag |-> "ASUS", cls |-> "ASUSHandler"]
    /\ lookups[2] = [tag |-> "asus", cls |-> "GenericHandler"]

\* C10: without a router address in the request, a failed gateway location
\* ends the session with the no-router error and without any login or
\* rule-application call; with a router address in the request, find_router
\* is not called and the session goes on with that address.
C10_GatewayOrManualAddress ==
    unit = "api" =>
        /\ (locatorCalls > 0 /\ ~Truthy(rm.router_ip)) =>
              /\ pc = "Done"
              /\ result = Failure(NoRouter)
              /\ loginRet = "none" /\ loginLog = <<>>
              /\ setupCalls = <<>> /\ handlerCalls = <<>> /\ requests = 0
        /\ (Truthy(request.routerIP) /\ pc \in {"Authenticating", "Done"}
            /\ Validate(request) = "ok") =>
              /\ locatorCalls = 0
              /\ rm.router_ip = request.routerIP
              /\ result.error # NoRouter
        /\ (~Truthy(request.routerIP) /\ pc = "Authenticating") =>
              (locatorCalls = 1 /\ Truthy(rm.router_ip))

\* C10 witness: no address in the request, the location has failed
C10_Witness ==
    /\ ApiDone /\ ~Truthy(request.routerIP) /\ locatorCalls = 1
    /\ result = Failure(NoRouter)

\* a session that was given the router address has reached the login
C10_ManualReached ==
    ApiDone /\ Truthy(request.routerIP) /\ loginRet = "false" /\ locatorCalls = 0

\* a MAC of one of the Raspberry Pi vendor prefixes, in whichever case its
\* hexadecimal digits are written
PiVendor(mac) ==
    \E k \in DOMAIN pi_mac_prefixes : startswith(lower(mac), lower(pi_mac_prefixes[k]))

\* the answering hosts with at least one of the three signals
Qualifying ==
    {k \in DOMAIN discovery.arp :
        \/ PiVendor(discovery.arp[k].mac)
        \/ hostname_match(hostname_of(discovery.arp[k]))
        \/ port_match(discovery.arp[k])}

\* C11: after the sweep the candidates are exactly the answering addresses
\* with at least one signal (a Raspberry Pi MAC prefix, a hostname pattern,
\* an open DreamPi port), and when exactly one address qualifies
\* find_dreampi returns it.
C11_CandidateIffAnySignal ==
    (unit = "discovery" /\ discovery.arp # <<>>) =>
        /\ {discovery.discovered_ips[k][4] : k \in DOMAIN discovery.discovered_ips}
           = {discovery.arp[k].ip : k \in Qualifying}
        /\ Cardinality(Qualifying) = 1 =>
              /\ pc = "D_Done"
              /\ \E k \in Qualifying :
                    discovery.returned.text
                    = discovery.network_prefix \o <<".">> \o Digits(discovery.arp[k].ip)

\* C12: with two or more candidates find_dreampi reads nothing from the
\* terminal: it has ended, with an ambiguous outcome that carries the
\* candidates in discovery order.
C12_AmbiguityIsReported ==
    (unit = "discovery" /\ Len(discovery.discovered_ips) >= 2) =>
        /\ pc = "D_Done"
        /\ discovery.choice.kind = "none" /\ discovery.manual_input.kind = "none"
        /\ discovery.returned.kind = "ambiguous"
        /\ discovery.returned.text = discovery.discovered_ips

\* C13: a manual address is accepted exactly when it is an address whose
\* first three octets are those of the subnet prefix; any other is rejected
\* and find_dreampi returns None.
C13_ManualAddressBySubnetPrefix ==
    (unit = "discovery" /\ pc = "D_Done" /\ discovery.manual_input.kind = "text") =>
        LET m == discovery.manual_input
            onSubnet == /\ Len(m.octets) = 4
                        /\ Dotted(SubSeq(m.octets, 1, 3)) = discovery.network_prefix
        IN  /\ onSubnet => discovery.returned = TextStr(m.text)
            /\ ~onSubnet => discovery.returned = None

\* the name or the description of the adapter has a denylist term
Denylisted(a) == VpnLine(Line(a.name, <<>>)) \/ VpnLine(Line(a.desc, <<>>))

\* the adapters off the denylist whose address shares the gateway's first
\* three octets
Eligible ==
    {k \in DOMAIN subnet.adapters :
        /\ ~Denylisted(subnet.adapters[k])
        /\ SubSeq(subnet.adapters[k].ip, 1, 3) = SubSeq(subnet.router_ip.text, 1, 3)}

\* a dotted IPv4 address
IsIPv4(v) ==
    v.kind = "str" /\ Len(v.text) = 4 /\ \A k \in 1..4 : v.text[k] \in 0..255

\* C14: with the gateway known, get_router_subnet_ip returns the address
\* of the first adapter, in listing order, that is off the denylist and
\* shares the gateway's first three octets, and None when there is none;
\* it never returns the address of a denylisted adapter.
C14_FirstAddressOffDenylist ==
    (unit = "subnet" /\ IsIPv4(subnet.router_ip)) =>
        IF Eligible = {} THEN subnet.returned = None
        ELSE \E k \in Eligible :
                /\ \A j \in Eligible : k <= j
                /\ subnet.returned = Str(subnet.adapters[k].ip)

\* find_router has just returned True
RouterFound ==
    \/ unit = "api" /\ pc = "Authenticating" /\ locatorCalls = 1
    \/ unit = "manager" /\ pc = "M_Located" /\ locatorCalls = 1 /\ ret.value = "true"

\* C15: when find_router reports success, router_ip is a dotted IPv4
\* address; any other listing is reported as not found.
C15_GatewayIsAddressOrNotFound == RouterFound => IsIPv4(rm.router_ip)

\* C16: an invocation of start_port_forward is never left by an exception:
\* until it has returned it can take its next step, and what it returns is
\* a record with a boolean success and, when success is false, an error.
C16_AlwaysReturnsResult ==
    unit = "api" =>
        /\ pc \in {"LocatingGateway", "Authenticating", "Done"}
        /\ pc = "LocatingGateway" => ENABLED (\E listing \in Listings : ApiLocate(listing))
        /\ pc = "Authenticating" => ENABLED ApiAuthenticate
        /\ pc = "Done" =>
              /\ result.success \in BOOLEAN
              /\ ~result.success => result.error \notin {"none", ""}

\* C16 witness: credentials.get has raised, and the invocation has returned
\* the error record made of the exception
C16_Witness ==
    ApiDone /\ Validate(request) = AttributeError /\ result = Failure(UnexpectedError)

\* C17: the log file does not depend on the password: the session that
\* differs from this one only in its (non-empty) password has written the
\* same lines up to the construction of the RouterManager.
C17_LogIndependentOfPassword ==
    (unit = "api" /\ Validate(request) = "ok") =>
        \A p \in Passwords \ {""} :
            SubSeq(logFile, 1, Len(StartLog(request)))
            = StartLog([request EXCEPT !.password = p])

\* C18: each of the two invocations locates, configures and logs in only
\* through the RouterManager it has constructed itself.
C18_InvocationUsesOwnManager ==
    \A i \in Sessions : invocations[i].used \subseteq {i}

\* C19: the outcome of an application tells which rules were applied: a
\* failure, which names no rule, is returned only when no rule has been
\* applied.
C19_PartialApplicationReported ==
    (unit = "manager" /\ pc = "M_Done" /\ ret.value = "false") => routerTable = <<>>

\* C20: a call of login_to_router or setup_port_forward on a RouterManager
\* whose session has ended issues no request to the router and changes
\* neither the router's table nor the outcome of the session.
C20_TerminalSessionIsFinal ==
    [][(unit = "manager" /\ pc = "M_Done") =>
          /\ requests' = requests /\ routerTable' = routerTable
          /\ loginLog' = loginLog /\ loginRet' = loginRet /\ ret' = ret]_vars

\* the hosts of the subnet with one of the DreamPi ports open
PortQualifying ==
    {k \in DOMAIN discovery.hosts : port_match(discovery.hosts[k])}

\* C21: when the sweep library cannot be imported or the sweep raises,
\* find_dreampi decides by the port signal alone, without a prompt: one
\* host of the subnet with a DreamPi port open is returned, several give
\* the ambiguous outcome, none gives not found.
C21_FallbackDecidesByPorts ==
    (unit = "discovery" /\ discovery.scapy \in {"ImportError", "Exception"}) =>
        /\ pc = "D_Done"
        /\ discovery.manual_input.kind = "none"
        /\ Cardinality(PortQualifying) = 0 => discovery.returned = None
        /\ Cardinality(PortQualifying) = 1 =>
              \E k \in PortQualifying :
                  discovery.returned.text
                  = discovery.network_prefix \o <<".">> \o Digits(discovery.hosts[k].ip)
        /\ Cardinality(PortQualifying) >= 2 => discovery.returned.kind = "ambiguous"

\* the order of auth_methods the cascade is to follow
Cascade == <<"basic", "form", "digest">>

\* C22: a GenericHandler.login call runs its strategies in the order basic
\* probe, form cascade, digest; it returns True at the first strategy the
\* router accepts and runs none after it; a strategy that is rejected or
\* whose request raises is followed by the next one, and the call returns
\* False only after all three.
C22_CascadeInOrderWithoutAbort ==
    loginCall.cls = "GenericHandler" =>
        LET a == loginCall
            n == Len(a.strategies)
        IN  /\ n >= 1
            /\ \A j \in 1..n : a.strategies[j].strategy = Cascade[j]
            /\ \A j \in 1..(n - 1) : a.resp[j] # "accept"
            /\ a.outcome \in {"ok", "fail"}
            /\ a.outcome = "ok" <=> a.resp[n] = "accept"
            /\ a.outcome = "fail" => n = Len(Cascade)

\* a request of the call was answered by a transport exception
TransportRaised(a) ==
    \E j \in 1..(IF a.strategies = <<>> THEN 1 ELSE Len(a.strategies)) :
        a.resp[j] = "exc"

\* C23: a handler.login or handler.setup_port_forward call in which a
\* request raises a transport exception returns a boolean: it does not
\* raise, whichever class the handler is.
C23_TransportErrorsGiveBoolean ==
    /\ (loginCall # NoLoginCall /\ TransportRaised(loginCall)) =>
          loginCall.outcome \in {"ok", "fail"}
    /\ (unit = "handler" /\ requests > 0) => ret.value \in {"true", "false"}

\* C24: a handler.login call that does not succeed leaves session.auth, the
\* Authorization header and the handler's token as they were before it.
C24_FailedLoginKeepsContext ==
    (loginCall # NoLoginCall /\ loginCall.outcome # "ok") =>
        loginCall.after = loginCall.before

\* C26: every handler.login call of a login_to_router call receives a
\* username and a password, none of them None, and in a session they are
\* those of the request.
C26_LoginReceivesCredentials ==
    \A k \in DOMAIN attempts :
        /\ attempts[k].username # PyNone
        /\ attempts[k].password # PyNone
        /\ unit = "api" =>
              /\ attempts[k].username = request.username
              /\ attempts[k].password = request.password

C27_PerRuleStopsAtFirstFailure ==
    (/\ unit = "handler" /\ pc \in {"V_Once", "V_Failed"} /\ Len(handlerCalls) = 1
     /\ rm.handler.cls \in {"FiosG1100Handler", "LinksysHandler"}) =>
        LET c == handlerCalls[1]
            n == Len(ret.answers)
            applied(m) == [k \in 1..m |-> Entry(c.ip, c.rules[k])]
        IN  /\ n = requests
            /\ n <= Len(c.rules)
            /\ \A k \in 1..(n - 1) : ret.answers[k] = "200"
            /\ ret.value = "true" <=>
                  (n = Len(c.rules) /\ \A k \in 1..n : ret.answers[k] = "200")
            /\ ret.value = "true" => routerTable = applied(n)
            /\ ret.value = "false" =>
                  (n >= 1 /\ ret.answers[n] # "200" /\ routerTable = applied(n - 1))

\* C27 witness: the second of three Saturn rules is answered with 500
C27_Witness ==
    /\ unit = "handler" /\ pc = "V_Failed"
    /\ rm.handler.cls = "FiosG1100Handler"
    /\ handlerCalls[1].rules = SaturnRules
    /\ ret.answers = <<"200", "500">>
    /\ ret.value = "false"
    /\ Len(routerTable) = 1

\* no two rules of the sequence have the same protocol and external port
DistinctRules(rules) ==
    \A i, j \in DOMAIN rules : i # j => RuleName(rules[i]) # RuleName(rules[j])

\* C28: the rules a handler receives from get_port_rules have pairwise
\* distinct names DreamPi_<protocol>_<external>, and one application of
\* them leaves no two entries of the same name on the router.
C28_CatalogRulesAreDistinct ==
    unit = "manager" =>
        /\ \A k \in DOMAIN handlerCalls : DistinctRules(handlerCalls[k].rules)
        /\ Len(handlerCalls) = 1 =>
              \A i, j \in DOMAIN routerTable :
                  i # j => routerTable[i].name # routerTable[j].name

\* C29: every host that answers the sweep with a MAC of a Raspberry Pi
\* vendor prefix, in whichever letter case, and every host whose MAC
\* check_mac_pattern matches, is among the candidates of the sweep.
C29_MacMatchIgnoresCase ==
    (unit = "discovery" /\ discovery.arp # <<>>) =>
        \A k \in DOMAIN discovery.arp :
            (PiVendor(discovery.arp[k].mac) \/ check_mac_pattern_match(discovery.arp[k].mac))
                => \E j \in DOMAIN discovery.discovered_ips :
                      discovery.discovered_ips[j][4] = discovery.arp[k].ip

\* a request without one of the required keys, with credentials that are
\* not an object, or with an empty username or password
Rejected(data) ==
    \/ ~(RequiredKeys \subseteq data.has)
    \/ data.credentials # "dict"
    \/ data.username = ""
    \/ data.password = ""

\* C30: a session with such a request has ended with a failure result
\* without a gateway lookup, a login or a rule application; a session
\* whose console is neither dreamcast nor saturn makes no rule application.
C30_InvalidRequestRejectedFirst ==
    unit = "api" =>
        /\ Rejected(request) =>
              /\ pc = "Done"
              /\ ~result.success /\ result.error # "none"
              /\ locatorCalls = 0 /\ loginRet = "none" /\ attempts = <<>>
              /\ setupCalls = <<>> /\ handlerCalls = <<>> /\ requests = 0
        /\ request.console \notin {"dreamcast", "saturn"} =>
              (setupCalls = <<>> /\ handlerCalls = <<>> /\ requests = 0)

\* C30 witness: all keys and a username, but an empty password: rejected
\* before the gateway lookup
C30_Witness ==
    /\ ApiDone
    /\ RequiredKeys \subseteq request.has /\ request.credentials = "dict"
    /\ request.username = "admin" /\ request.password = ""
    /\ result = Failure(InvalidCredentials)
    /\ locatorCalls = 0 /\ loginRet = "none"
====
